---- MODULE Spec2Model ----
(***************************************************************************)
(* Model of mhlib/scheduler.py: the Scheduler core of pymhlib (method      *)
(* application protocol, incumbent tracking, termination check, per-method *)
(* statistics) and the next_method generator.                              *)
(***************************************************************************)
EXTENDS Integers, Sequences, FiniteSets, TLC

\* ------------------------------------------------------------------ bounds
MaxIter == 2        \* perform_method / perform_method_pair calls per run
MaxTime == 1        \* clock ticks that pass after construction
MaxObj == 1         \* objective values are 0..MaxObj
MaxDelayed == 1     \* delayed_success_update calls per run
MaxLen == 3         \* length of the list handed to next_method
MaxYields == 7      \* methods drawn from one generator
MaxLogIter == 100   \* iterations of the runs that study the iteration log

\* ------------------------------------------------------------ value domains
None == -1                       \* Python's None for run_time (durations are >= 0)
Methods == {"m1", "m2"}          \* Method.name of the configured methods
Sols == {"incumbent", "work"}    \* the object handed to __init__ and another Solution
Obj == 0..MaxObj
StartTimes == {0, 1}             \* time.process_time() at construction
Clock == 0..(1 + MaxTime)        \* values of the process clock

\* settings read by the scheduler (own_settings.mh_*)
Setting(titer, tciter, ttime, tctime, tobj, lnewinc, lfreq, checkit) ==
    [mh_titer |-> titer, mh_tciter |-> tciter, mh_ttime |-> ttime,
     mh_tctime |-> tctime, mh_tobj |-> tobj, mh_lnewinc |-> lnewinc,
     mh_lfreq |-> lfreq, mh_checkit |-> checkit]
\* the settings of the runs explored: no criterion, and max_iterations with
\* validation after each application
Settings ==
    {Setting(-1, -1, -1, -1, -1, TRUE, 0, FALSE),
     Setting(2, -1, -1, -1, -1, TRUE, 0, TRUE)}
\* the settings of the runs that study termination: every criterion alone,
\* at its boundary values, and some combinations
Thresholds ==
    [mh_titer: {-1, 0, 1, 2}, mh_tciter: {-1, 1}, mh_ttime: {-1, 1},
     mh_tctime: {-1, 0, 1}, mh_tobj: {-1, 0, 1}]
EnabledCriteria(t) ==
    {c \in {"mh_titer", "mh_tciter", "mh_ttime", "mh_tctime", "mh_tobj"} : t[c] >= 0}
TermSettings ==
    {Setting(t.mh_titer, t.mh_tciter, t.mh_ttime, t.mh_tctime, t.mh_tobj,
             TRUE, 0, FALSE) :
        t \in {u \in Thresholds : Cardinality(EnabledCriteria(u)) <= 1}}
    \cup {Setting(2, 1, -1, -1, -1, TRUE, 0, FALSE),
          Setting(-1, -1, 1, 1, -1, TRUE, 0, FALSE),
          Setting(1, -1, -1, -1, 1, TRUE, 0, FALSE),
          Setting(2, 1, 1, 1, 1, TRUE, 0, FALSE)}

VARIABLES
    own_settings,         \* the mh_* settings of this scheduler
    to_maximize,          \* direction of the Solution class' comparison
    time_start,           \* self.time_start
    now,                  \* the process clock, time.process_time()
    obj,                  \* obj[s]: objective value of Solution object s
    incumbent_valid,      \* self.incumbent_valid
    incumbent_iteration,  \* self.incumbent_iteration
    incumbent_time,       \* self.incumbent_time
    method_stats,         \* self.method_stats: name -> MethodStatistics
    iteration,            \* self.iteration
    run_time,             \* self.run_time (None until set)
    last,                 \* outcome of the last call that returns or raises
    updates,              \* history: delayed_success_update calls so far
    calls,                \* history: completed perform_method(_pair) calls
    best_end,             \* history: best end-of-call objective seen so far
    replaced_at,          \* history: clock value at the incumbent's last replacement
    pending,              \* history: deferred applications not yet finalised, per method
    gen_args,             \* next_method: the keyword arguments randomize, repeat
    gen_lists,            \* next_method: the caller's list object and the copy
    gen_meths,            \* next_method: the list object the local meths names
    gen_pc,               \* next_method: where the generator is suspended
    gen_idx,              \* next_method: position of the for loop in meths
    gen_out,              \* history: the methods yielded so far
    gen_given,            \* history: the caller's list as handed over
    sdiv_last,            \* the last call of sdiv: its arguments and its result
    seq_sol               \* perform_sequentially: its argument sol while it runs

scheduler == <<own_settings, to_maximize, time_start, now, obj, incumbent_valid,
               incumbent_iteration, incumbent_time, method_stats, iteration,
               run_time, last, updates, calls, best_end, replaced_at, pending>>
generator == <<gen_args, gen_lists, gen_meths, gen_pc, gen_idx, gen_out, gen_given>>
\* the calls under way around the scheduler's attributes: the generator, the
\* call of sdiv, the frame of perform_sequentially
frames == <<generator, sdiv_last, seq_sol>>
vars == <<scheduler, frames>>

\* ------------------------------------------------- Solution (collaborator)
is_better_obj(obj1, obj2) == IF to_maximize THEN obj1 > obj2 ELSE obj1 < obj2
is_worse_obj(obj1, obj2) == IF to_maximize THEN obj1 < obj2 ELSE obj1 > obj2
is_better(o, sol, other) == is_better_obj(o[sol], o[other])
copy_from(o, self, other) == [o EXCEPT ![self] = o[other]]

\* truth value of a returned Python object
Truthy(v) == v = "True"

\* ------------------------------------------------- numbers of the report
\* a Python number n/d, float('nan'), or a raised ZeroDivisionError
Number(n, d) == [kind |-> "number", num |-> n, den |-> d]
NaN == [kind |-> "nan", num |-> 0, den |-> 1]
ZeroDivisionError == [kind |-> "ZeroDivisionError", num |-> 0, den |-> 1]
IsZero(v) == v.kind = "number" /\ v.num = 0
\* Python's x / y
TrueDiv(x, y) ==
    IF x.kind = "ZeroDivisionError" \/ y.kind = "ZeroDivisionError" \/ IsZero(y)
    THEN ZeroDivisionError
    ELSE IF x.kind = "nan" \/ y.kind = "nan" THEN NaN
    ELSE Number(x.num * y.den, x.den * y.num)

\* faulty variant: the quotient without the test for zero
sdiv_unguarded(x, y) == TrueDiv(x, y)
\* Scheduler.sdiv(x, y)
sdiv(x, y) == IF IsZero(y) THEN NaN ELSE TrueDiv(x, y)

\* ---------------------------------------------------------- MethodStatistics
MethodStatistics ==
    [applications |-> 0, netto_time |-> 0, successes |-> 0, obj_gain |-> 0,
     brutto_time |-> 0]

\* ------------------------------------------------------------- Scheduler
\* faulty variant: a candidate that is merely not worse replaces the incumbent
update_incumbent_not_worse(o, sol, current_time, it) ==
    IF ~incumbent_valid \/ ~is_worse_obj(o[sol], o["incumbent"])
    THEN [obj |-> copy_from(o, "incumbent", sol), iteration |-> it,
          time |-> current_time, valid |-> TRUE, ret |-> "True"]
    ELSE [obj |-> o, iteration |-> incumbent_iteration, time |-> incumbent_time,
          valid |-> incumbent_valid, ret |-> "None"]

\* faulty variant: the counter as it stood before the application is recorded
update_incumbent_before_increment(o, sol, current_time, it) ==
    IF ~incumbent_valid \/ is_better(o, sol, "incumbent")
    THEN [obj |-> copy_from(o, "incumbent", sol), iteration |-> it - 1,
          time |-> current_time, valid |-> TRUE, ret |-> "True"]
    ELSE [obj |-> o, iteration |-> incumbent_iteration, time |-> incumbent_time,
          valid |-> incumbent_valid, ret |-> "None"]

\* update_incumbent with self.iteration = it and the solutions' objectives o
update_incumbent(o, sol, current_time, it) ==
    IF ~incumbent_valid \/ is_better(o, sol, "incumbent")
    THEN [obj |-> copy_from(o, "incumbent", sol), iteration |-> it,
          time |-> current_time, valid |-> TRUE, ret |-> "True"]
    ELSE [obj |-> o, iteration |-> incumbent_iteration, time |-> incumbent_time,
          valid |-> incumbent_valid, ret |-> "None"]

\* faulty variant: the iteration limit must be exceeded, not reached
check_termination_exceeded(t, it, inc_iteration, inc_time, inc_obj) ==
    IF \/ (0 <= own_settings.mh_titer /\ own_settings.mh_titer < it)
       \/ (0 <= own_settings.mh_tciter /\ own_settings.mh_tciter <= it - inc_iteration)
       \/ (0 <= own_settings.mh_ttime /\ own_settings.mh_ttime <= t - time_start)
       \/ (0 <= own_settings.mh_tctime /\ own_settings.mh_tctime <= t - inc_time)
       \/ (0 <= own_settings.mh_tobj /\ ~is_worse_obj(inc_obj, own_settings.mh_tobj))
    THEN "True" ELSE "None"

\* faulty variant: the target objective must be beaten, not reached
check_termination_beaten(t, it, inc_iteration, inc_time, inc_obj) ==
    IF \/ (0 <= own_settings.mh_titer /\ own_settings.mh_titer <= it)
       \/ (0 <= own_settings.mh_tciter /\ own_settings.mh_tciter <= it - inc_iteration)
       \/ (0 <= own_settings.mh_ttime /\ own_settings.mh_ttime <= t - time_start)
       \/ (0 <= own_settings.mh_tctime /\ own_settings.mh_tctime <= t - inc_time)
       \/ (0 <= own_settings.mh_tobj /\ is_better_obj(inc_obj, own_settings.mh_tobj))
    THEN "True" ELSE "None"

\* check_termination at clock value t
check_termination(t, it, inc_iteration, inc_time, inc_obj) ==
    IF \/ (0 <= own_settings.mh_titer /\ own_settings.mh_titer <= it)
       \/ (0 <= own_settings.mh_tciter /\ own_settings.mh_tciter <= it - inc_iteration)
       \/ (0 <= own_settings.mh_ttime /\ own_settings.mh_ttime <= t - time_start)
       \/ (0 <= own_settings.mh_tctime /\ own_settings.mh_tctime <= t - inc_time)
       \/ (0 <= own_settings.mh_tobj /\ ~is_worse_obj(inc_obj, own_settings.mh_tobj))
    THEN "True" ELSE "None"

\* is_logarithmic_number(x), x >= 1: log10(x) % 1 is within eps = 1e-12 of 0,
\* log10(2) or log10(5). For the integers below 10^12 that is so exactly for
\* 1, 2, 5 and ten times such a number (from 10^12 + 1 on the tolerance also
\* accepts neighbours of these numbers; such counts are beyond the model).
RECURSIVE is_logarithmic_number(_)
is_logarithmic_number(x) ==
    \/ x \in {1, 2, 5}
    \/ (x >= 10 /\ x % 10 = 0 /\ is_logarithmic_number(x \div 10))

\* faulty variant: a new incumbent is logged whatever mh_lnewinc says
log_iteration_every_incumbent(it, new_incumbent, in_any_case) ==
    LET log == Truthy(in_any_case) \/ Truthy(new_incumbent)
        lfreq == own_settings.mh_lfreq
    IN  IF log THEN TRUE
        ELSE IF lfreq > 0 /\ it % lfreq = 0 THEN TRUE
        ELSE IF lfreq < 0 /\ is_logarithmic_number(it) THEN TRUE
        ELSE FALSE

\* log_iteration: TRUE iff a record is written
log_iteration(it, new_incumbent, in_any_case) ==
    LET log == Truthy(in_any_case) \/ (Truthy(new_incumbent) /\ own_settings.mh_lnewinc)
        lfreq == own_settings.mh_lfreq
    IN  IF log THEN TRUE
        ELSE IF lfreq > 0 /\ it % lfreq = 0 THEN TRUE
        ELSE IF lfreq < 0 /\ is_logarithmic_number(it) THEN TRUE
        ELSE FALSE

\* faulty variant: an application that does not worsen the objective is a success
StatsAfterMethodNotWorse(ms, dt, delayed_success, obj_old, obj_new) ==
    LET a == [ms EXCEPT !.applications = @ + 1, !.netto_time = @ + dt]
        b == [a EXCEPT !.brutto_time = @ + dt]
    IN  IF delayed_success THEN a
        ELSE IF ~is_worse_obj(obj_new, obj_old)
             THEN [b EXCEPT !.successes = @ + 1, !.obj_gain = @ + (obj_new - obj_old)]
             ELSE b

\* faulty variant: the change of the objective is booked as gain in any case
StatsAfterMethodGainAlways(ms, dt, delayed_success, obj_old, obj_new) ==
    LET a == [ms EXCEPT !.applications = @ + 1, !.netto_time = @ + dt]
        b == [a EXCEPT !.brutto_time = @ + dt, !.obj_gain = @ + (obj_new - obj_old)]
    IN  IF delayed_success THEN a
        ELSE IF is_better_obj(obj_new, obj_old)
             THEN [b EXCEPT !.successes = @ + 1]
             ELSE b

\* the statistics of the applied method after perform_method's bookkeeping
StatsAfterMethod(ms, dt, delayed_success, obj_old, obj_new) ==
    LET a == [ms EXCEPT !.applications = @ + 1, !.netto_time = @ + dt]
        b == [a EXCEPT !.brutto_time = @ + dt]
    IN  IF delayed_success THEN a
        ELSE IF is_better_obj(obj_new, obj_old)
             THEN [b EXCEPT !.successes = @ + 1, !.obj_gain = @ + (obj_new - obj_old)]
             ELSE b

\* faulty variant: only the repair method is credited with the success
StatsAfterPairRepairOnly(stats, destroy, repair, dt_destroy, dt_repair, obj_old, obj_new) ==
    LET s1 == [stats EXCEPT ![destroy].applications = @ + 1,
                            ![destroy].netto_time = @ + dt_destroy,
                            ![destroy].brutto_time = @ + dt_destroy]
        s2 == [s1 EXCEPT ![repair].applications = @ + 1,
                         ![repair].netto_time = @ + dt_repair,
                         ![repair].brutto_time = @ + dt_repair]
        s4 == [s2 EXCEPT ![repair].successes = @ + 1,
                         ![repair].obj_gain = @ + (obj_new - obj_old)]
    IN  IF is_better_obj(obj_new, obj_old) THEN s4 ELSE s2

\* method_stats after perform_method_pair's bookkeeping (ms_destroy and
\* ms_repair are the same object when both names are equal)
StatsAfterPair(stats, destroy, repair, dt_destroy, dt_repair, obj_old, obj_new) ==
    LET s1 == [stats EXCEPT ![destroy].applications = @ + 1,
                            ![destroy].netto_time = @ + dt_destroy,
                            ![destroy].brutto_time = @ + dt_destroy]
        s2 == [s1 EXCEPT ![repair].applications = @ + 1,
                         ![repair].netto_time = @ + dt_repair,
                         ![repair].brutto_time = @ + dt_repair]
        s3 == [s2 EXCEPT ![destroy].successes = @ + 1,
                         ![destroy].obj_gain = @ + (obj_new - obj_old)]
        s4 == [s3 EXCEPT ![repair].successes = @ + 1,
                         ![repair].obj_gain = @ + (obj_new - obj_old)]
    IN  IF is_better_obj(obj_new, obj_old) THEN s4 ELSE s2

\* self.iteration after one perform_method / perform_method_pair call
IterationAfterMethod(it) == it + 1
\* faulty variant: a pair counts as two iterations
IterationAfterPairTwo(it) == it + 2
IterationAfterPair(it) == it + 1

\* the better of two end-of-call objectives (history only)
BestOf(a, b) == IF a = None THEN b ELSE IF is_better_obj(b, a) THEN b ELSE a

NoLast ==
    [op |-> "init", raised |-> FALSE, new_incumbent |-> "None",
     terminate |-> FALSE, ret |-> "None", logged |-> FALSE]

\* no generator has been created
NoGenerator ==
    /\ gen_args = [randomize |-> FALSE, repeat |-> FALSE]
    /\ gen_lists = [caller |-> <<>>, copy |-> <<>>]
    /\ gen_meths = "caller"
    /\ gen_pc = "none"
    /\ gen_idx = 0
    /\ gen_out = <<>>
    /\ gen_given = <<>>

\* sdiv has not been called
NoSdiv == [called |-> FALSE, x |-> 0, y |-> 0, value |-> NaN]

\* the scheduler as constructed, for one of the given settings, clock values
\* and sets of configured method names
InitOf(settings, starts, method_sets) ==
    /\ own_settings \in settings
    /\ to_maximize \in BOOLEAN
    /\ time_start \in starts
    /\ now = time_start
    /\ \E o \in Obj : obj = [s \in Sols |-> o]
    /\ incumbent_valid \in BOOLEAN
    /\ incumbent_iteration = 0
    /\ incumbent_time = 0
    /\ \E names \in method_sets : method_stats = [m \in names |-> MethodStatistics]
    /\ iteration = 0
    /\ run_time = None
    /\ last = [NoLast EXCEPT !.logged = incumbent_valid]
    /\ calls = 0
    /\ best_end = None
    /\ replaced_at = time_start
    /\ updates = 0
    /\ pending = [m \in DOMAIN method_stats |-> 0]
    /\ NoGenerator
    /\ sdiv_last = NoSdiv
    /\ seq_sol = "none"

InitWith(settings, starts) == InitOf(settings, starts, {Methods})

\* the clock may be read d ticks from now
ClockAllows(d) == now + d <= time_start + MaxTime

\* time passes between two operations
Tick ==
    /\ ClockAllows(1)
    /\ now' = now + 1
    /\ UNCHANGED <<own_settings, to_maximize, time_start, obj, incumbent_valid,
                   incumbent_iteration, incumbent_time, method_stats, iteration,
                   run_time, last, updates, calls, best_end, replaced_at, pending>>
    /\ UNCHANGED frames

\* perform_method(method, sol, delayed_success), returning normally: the
\* operator leaves sol with objective obj_new after d1 clock ticks; d2 and d3
\* are the ticks before the clock reads of check_termination and of run_time
PerformMethod(method, sol, delayed_success, obj_new, d1, d2, d3) ==
    LET obj_old == obj[sol]
        t_start == now
        t_end == now + d1
        o1 == [obj EXCEPT ![sol] = obj_new]
        ms == StatsAfterMethod(method_stats[method], t_end - t_start,
                               delayed_success, obj_old, o1[sol])
        it == IterationAfterMethod(iteration)
        ui == update_incumbent(o1, sol, t_end - time_start, it)
        t == t_end + d2
        terminate == check_termination(t, it, ui.iteration, ui.time,
                                       ui.obj["incumbent"])
        logged == log_iteration(it, ui.ret, terminate)
    IN  /\ ClockAllows(d1 + d2 + d3)
        /\ obj' = ui.obj
        /\ method_stats' = [method_stats EXCEPT ![method] = ms]
        /\ iteration' = it
        /\ incumbent_valid' = ui.valid
        /\ incumbent_iteration' = ui.iteration
        /\ incumbent_time' = ui.time
        /\ run_time' = IF Truthy(terminate) THEN (t + d3) - time_start ELSE run_time
        /\ now' = t + d3
        /\ last' = [NoLast EXCEPT !.op = "perform_method",
                      !.new_incumbent = ui.ret, !.terminate = Truthy(terminate),
                      !.logged = logged]
        /\ calls' = calls + 1
        /\ best_end' = BestOf(best_end, o1[sol])
        /\ replaced_at' = IF Truthy(ui.ret) THEN t_end ELSE replaced_at
        /\ pending' = IF delayed_success THEN [pending EXCEPT ![method] = @ + 1]
                                         ELSE pending
        /\ UNCHANGED <<own_settings, to_maximize, time_start, updates>>
        /\ UNCHANGED frames

\* perform_method with mh_checkit set and sol.check() raising: the operator
\* has run, nothing else has
PerformMethodRaise(method, sol, obj_new, d1) ==
    /\ own_settings.mh_checkit
    /\ ClockAllows(d1)
    /\ obj' = [obj EXCEPT ![sol] = obj_new]
    /\ now' = now + d1
    /\ last' = [NoLast EXCEPT !.op = "perform_method", !.raised = TRUE]
    /\ UNCHANGED <<own_settings, to_maximize, time_start, incumbent_valid,
                   incumbent_iteration, incumbent_time, method_stats, iteration,
                   run_time, updates, calls, best_end, replaced_at, pending>>
    /\ UNCHANGED frames

\* perform_method_pair(destroy_method, repair_method, sol), returning
\* normally: destroy takes d1 ticks, repair d2 ticks and leaves sol with
\* objective obj_new
PerformMethodPair(destroy, repair, sol, obj_new, d1, d2, d3, d4) ==
    LET obj_old == obj[sol]
        t_start == now
        t_destroyed == now + d1
        t_end == t_destroyed + d2
        o1 == [obj EXCEPT ![sol] = obj_new]
        stats == StatsAfterPair(method_stats, destroy, repair,
                                t_destroyed - t_start, t_end - t_destroyed,
                                obj_old, o1[sol])
        it == IterationAfterPair(iteration)
        ui == update_incumbent(o1, sol, t_end - time_start, it)
        t == t_end + d3
        terminate == check_termination(t, it, ui.iteration, ui.time,
                                       ui.obj["incumbent"])
        logged == log_iteration(it, ui.ret, terminate)
    IN  /\ ClockAllows(d1 + d2 + d3 + d4)
        /\ obj' = ui.obj
        /\ method_stats' = stats
        /\ iteration' = it
        /\ incumbent_valid' = ui.valid
        /\ incumbent_iteration' = ui.iteration
        /\ incumbent_time' = ui.time
        /\ run_time' = IF Truthy(terminate) THEN (t + d4) - time_start ELSE run_time
        /\ now' = t + d4
        /\ last' = [NoLast EXCEPT !.op = "perform_method_pair",
                      !.new_incumbent = ui.ret, !.terminate = Truthy(terminate),
                      !.logged = logged]
        /\ calls' = calls + 1
        /\ best_end' = BestOf(best_end, o1[sol])
        /\ replaced_at' = IF Truthy(ui.ret) THEN t_end ELSE replaced_at
        /\ UNCHANGED <<own_settings, to_maximize, time_start, updates, pending>>
        /\ UNCHANGED frames

\* perform_method_pair with mh_checkit set and sol.check() raising
PerformMethodPairRaise(destroy, repair, sol, obj_new, d1) ==
    /\ own_settings.mh_checkit
    /\ ClockAllows(d1)
    /\ obj' = [obj EXCEPT ![sol] = obj_new]
    /\ now' = now + d1
    /\ last' = [NoLast EXCEPT !.op = "perform_method_pair", !.raised = TRUE]
    /\ UNCHANGED <<own_settings, to_maximize, time_start, incumbent_valid,
                   incumbent_iteration, incumbent_time, method_stats, iteration,
                   run_time, updates, calls, best_end, replaced_at, pending>>
    /\ UNCHANGED frames

\* faulty variant: a result that is not worse counts as a success
StatsAfterDelayedNotWorse(ms, dt, obj_old, obj_new) ==
    LET b == [ms EXCEPT !.brutto_time = @ + dt]
    IN  IF ~is_worse_obj(obj_new, obj_old)
        THEN [b EXCEPT !.successes = @ + 1, !.obj_gain = @ + (obj_new - obj_old)]
        ELSE b

\* the statistics of method after delayed_success_update's bookkeeping
StatsAfterDelayed(ms, dt, obj_old, obj_new) ==
    LET b == [ms EXCEPT !.brutto_time = @ + dt]
    IN  IF is_better_obj(obj_new, obj_old)
        THEN [b EXCEPT !.successes = @ + 1, !.obj_gain = @ + (obj_new - obj_old)]
        ELSE b

\* delayed_success_update(method, obj_old, t_start, sol)
DelayedSuccessUpdate(method, obj_old, t_start, sol) ==
    LET t_end == now
    IN  /\ updates < MaxDelayed
        /\ t_start \in time_start..now
        /\ method_stats' = [method_stats EXCEPT ![method] =
                               StatsAfterDelayed(@, t_end - t_start, obj_old, obj[sol])]
        /\ updates' = updates + 1
        /\ pending' = [pending EXCEPT ![method] = IF @ > 0 THEN @ - 1 ELSE 0]
        /\ UNCHANGED <<own_settings, to_maximize, time_start, now, obj,
                       incumbent_valid, incumbent_iteration, incumbent_time,
                       iteration, run_time, last, calls, best_end, replaced_at>>
        /\ UNCHANGED frames

\* update_incumbent(sol, current_time) called by the driver
UpdateIncumbent(sol, current_time) ==
    LET ui == update_incumbent(obj, sol, current_time, iteration)
    IN  /\ obj' = ui.obj
        /\ incumbent_valid' = ui.valid
        /\ incumbent_iteration' = ui.iteration
        /\ incumbent_time' = ui.time
        /\ last' = [NoLast EXCEPT !.op = "update_incumbent", !.ret = ui.ret]
        /\ replaced_at' = IF Truthy(ui.ret) THEN now ELSE replaced_at
        /\ UNCHANGED <<own_settings, to_maximize, time_start, now, method_stats,
                       iteration, run_time, updates, calls, best_end, pending>>
        /\ UNCHANGED frames

\* check_termination() called by the driver
CheckTermination ==
    /\ last' = [NoLast EXCEPT !.op = "check_termination",
                  !.ret = check_termination(now, iteration, incumbent_iteration,
                                            incumbent_time, obj["incumbent"])]
    /\ UNCHANGED <<own_settings, to_maximize, time_start, now, obj,
                   incumbent_valid, incumbent_iteration, incumbent_time,
                   method_stats, iteration, run_time, updates, calls, best_end,
                   replaced_at, pending>>
    /\ UNCHANGED frames

\* faulty variant: only None counts as "not yet set"
RunTimeAfterStatisticsIfNone(rt, t) == IF rt = None THEN t - time_start ELSE rt
\* run_time after method_statistics' "if not self.run_time" (None and 0 are falsy)
RunTimeAfterStatistics(rt, t) == IF rt = None \/ rt = 0 THEN t - time_start ELSE rt

\* the sum of a field of the statistics of the methods names
RECURSIVE Total(_, _, _)
Total(stats, names, field) ==
    IF names = {} THEN 0
    ELSE LET m == CHOOSE n \in names : TRUE
         IN  stats[m][field] + Total(stats, names \ {m}, field)

\* the quotients method_statistics computes for its table, with run_time rt
ReportQuotients(stats, rt) ==
    LET names == DOMAIN stats
        N(n) == Number(n, 1)
        total_applications == Total(stats, names, "applications")
        total_netto_time == Total(stats, names, "netto_time")
        total_successes == Total(stats, names, "successes")
        total_brutto_time == Total(stats, names, "brutto_time")
        total_obj_gain == Total(stats, names, "obj_gain")
    IN  UNION {{sdiv(N(stats[m].successes), N(stats[m].applications)),
                sdiv(N(stats[m].obj_gain), N(stats[m].applications)),
                sdiv(N(stats[m].successes), N(total_successes)),
                sdiv(N(stats[m].netto_time), N(rt)),
                sdiv(N(stats[m].brutto_time), N(rt))} : m \in names}
        \cup {sdiv(N(total_successes), N(total_applications)),
              sdiv(N(total_obj_gain), N(total_applications)),
              sdiv(sdiv(N(total_successes), N(Cardinality(names))),
                   N(total_successes)),
              sdiv(N(total_netto_time), N(rt)),
              sdiv(N(total_brutto_time), N(rt))}

\* method_statistics(): run_time is set first; the call raises if one of the
\* divisions does
MethodStatisticsReport ==
    /\ run_time' = RunTimeAfterStatistics(run_time, now)
    /\ last' = [NoLast EXCEPT !.op = "method_statistics",
                  !.raised = \E q \in ReportQuotients(method_stats, run_time') :
                                 q.kind = "ZeroDivisionError"]
    /\ UNCHANGED <<own_settings, to_maximize, time_start, now, obj,
                   incumbent_valid, incumbent_iteration, incumbent_time,
                   method_stats, iteration, updates, calls, best_end,
                   replaced_at, pending>>
    /\ UNCHANGED frames

\* main_results(): writes the report (or raises, while run_time is None, when
\* formatting it) and changes nothing
MainResults ==
    UNCHANGED vars

\* ---------------------------------------------------------------- drivers
Durations == 0..1    \* clock ticks one operator or one bookkeeping step takes
Instant == {0}

\* the explored runs make at most MaxIter applications
MayApply == iteration < MaxIter

ApplyMethod(D, E) ==
    /\ MayApply
    /\ \E method \in Methods, sol \in Sols, delayed_success \in BOOLEAN,
       obj_new \in Obj, d1 \in D, d2 \in E, d3 \in E :
          PerformMethod(method, sol, delayed_success, obj_new, d1, d2, d3)
ApplyMethodRaise(D) ==
    /\ MayApply
    /\ \E method \in Methods, sol \in Sols, obj_new \in Obj, d1 \in D :
          PerformMethodRaise(method, sol, obj_new, d1)
ApplyPair(D, E) ==
    /\ MayApply
    /\ \E destroy \in Methods, repair \in Methods, sol \in Sols, obj_new \in Obj,
       d1 \in D, d2 \in D, d3 \in E, d4 \in E :
          PerformMethodPair(destroy, repair, sol, obj_new, d1, d2, d3, d4)
ApplyPairRaise(D) ==
    /\ MayApply
    /\ \E destroy \in Methods, repair \in Methods, sol \in Sols, obj_new \in Obj,
       d1 \in D :
          PerformMethodPairRaise(destroy, repair, sol, obj_new, d1)
FinishDelayed ==
    \E method \in Methods, obj_old \in Obj, t_start \in Clock, sol \in Sols :
       DelayedSuccessUpdate(method, obj_old, t_start, sol)
\* delayed_success_update for a deferred application not yet finalised
FinishPending ==
    \E method \in Methods, obj_old \in Obj, t_start \in Clock, sol \in Sols :
       /\ pending[method] > 0
       /\ DelayedSuccessUpdate(method, obj_old, t_start, sol)
\* current_time as perform_method passes it (elapsed) and as
\* perform_sequentially passes it (the clock value)
OfferIncumbent ==
    \E sol \in Sols, current_time \in {now - time_start, now} :
       UpdateIncumbent(sol, current_time)
\* one method, immediate success accounting
ApplyOne(D, E) ==
    /\ MayApply
    /\ \E sol \in Sols, obj_new \in Obj, d1 \in D, d2 \in E, d3 \in E :
          PerformMethod("m1", sol, FALSE, obj_new, d1, d2, d3)

\* one method, deferred success accounting
ApplyOneDeferred(D) ==
    /\ MayApply
    /\ \E sol \in Sols, obj_new \in Obj, d1 \in D :
          PerformMethod("m1", sol, TRUE, obj_new, d1, 0, 0)

\* one destroy/repair pair
ApplyOnePair(D, E) ==
    /\ MayApply
    /\ \E sol \in Sols, obj_new \in Obj, d1 \in D, d2 \in D, d3 \in E, d4 \in E :
          PerformMethodPair("m1", "m2", sol, obj_new, d1, d2, d3, d4)

\* the application protocol while the clock runs
Init == InitWith(Settings, StartTimes)
Next ==
    \/ Tick
    \/ ApplyMethod(Durations, Durations)
    \/ ApplyMethodRaise(Durations)
    \/ ApplyPair(Durations, Durations)
    \/ ApplyPairRaise(Durations)
Spec == Init /\ [][Next]_vars

\* every operation of the scheduler, all within one clock tick
InitOps == InitWith({Setting(2, -1, -1, -1, -1, TRUE, 0, TRUE)}, {1})
NextOps ==
    \/ ApplyMethod(Instant, Instant)
    \/ ApplyMethodRaise(Instant)
    \/ ApplyPair(Instant, Instant)
    \/ ApplyPairRaise(Instant)
    \/ FinishDelayed
    \/ OfferIncumbent
    \/ CheckTermination
    \/ MethodStatisticsReport
    \/ MainResults
SpecOps == InitOps /\ [][NextOps]_vars

\* one method and one pair applied again and again under each termination
\* setting
InitTerm == InitWith(TermSettings, StartTimes)
NextTerm ==
    \/ Tick
    \/ ApplyOne(Durations, Durations)
    \/ ApplyOnePair(Durations, Instant)
    \/ CheckTermination
SpecTerm == InitTerm /\ [][NextTerm]_vars

\* whole runs while the clock runs: applications that go on after termination
\* has fired, reports at any time
InitRun ==
    InitWith({Setting(-1, -1, -1, -1, -1, TRUE, 0, FALSE),
              Setting(1, -1, -1, -1, -1, TRUE, 0, FALSE)}, {0})
NextRun ==
    \/ Tick
    \/ ApplyOne(Durations, Instant)
    \/ ApplyOneDeferred(Durations)
    \/ FinishDelayed
    \/ OfferIncumbent
    \/ CheckTermination
    \/ MethodStatisticsReport
    \/ MainResults
SpecRun == InitRun /\ [][NextRun]_vars

\* Scheduler.sdiv(x, y) called with two integers
SafeDivision(x, y) ==
    /\ sdiv_last' = [called |-> TRUE, x |-> x, y |-> y,
                     value |-> sdiv(Number(x, 1), Number(y, 1))]
    /\ UNCHANGED <<scheduler, generator, seq_sol>>

\* schedulers with any set of configured methods, the report at any time
DivArgs == -2..2
InitDiv ==
    /\ InitOf({Setting(-1, -1, -1, -1, -1, TRUE, 0, FALSE)}, {0}, SUBSET Methods)
    /\ incumbent_valid = FALSE
ApplyConfigured ==
    /\ MayApply
    /\ \E method \in DOMAIN method_stats, delayed_success \in BOOLEAN,
          obj_new \in Obj, d1 \in Durations :
          PerformMethod(method, "work", delayed_success, obj_new, d1, 0, 0)
NextDiv ==
    \/ Tick
    \/ ApplyConfigured
    \/ MethodStatisticsReport
    \/ \E x \in DivArgs, y \in DivArgs : SafeDivision(x, y)
SpecDiv == InitDiv /\ [][NextDiv]_vars

\* applications of every kind, each deferred one finalised at most once
InitStats == InitWith({Setting(-1, -1, -1, -1, -1, TRUE, 0, FALSE)}, {0})
NextStats ==
    \/ ApplyMethod(Instant, Instant)
    \/ ApplyPair(Instant, Instant)
    \/ FinishPending
SpecStats == InitStats /\ [][NextStats]_vars

\* the settings of the runs that study the iteration log
LogSettings ==
    {Setting(-1, -1, -1, -1, tobj, lnewinc, lfreq, FALSE) :
        tobj \in {-1, 0}, lnewinc \in BOOLEAN, lfreq \in {-1, 0, 1, 3}}

\* a scheduler constructed at clock 0 with consider_initial_sol = true and a
\* solution of objective MaxObj to minimise, after i applications of m1 to
\* the other solution object that took no time and left its objective as it was
InitLog ==
    /\ own_settings \in LogSettings
    /\ to_maximize = FALSE
    /\ time_start = 0
    /\ now = 0
    /\ obj = [s \in Sols |-> MaxObj]
    /\ incumbent_valid = TRUE
    /\ incumbent_iteration = 0
    /\ incumbent_time = 0
    /\ iteration \in 0..(MaxLogIter - 1)
    /\ calls = iteration
    /\ method_stats = [m \in Methods |->
                          IF m = "m1"
                          THEN [MethodStatistics EXCEPT !.applications = iteration]
                          ELSE MethodStatistics]
    /\ run_time = None
    /\ last = IF iteration = 0
              THEN [NoLast EXCEPT !.logged = TRUE]
              ELSE [NoLast EXCEPT !.op = "perform_method",
                                  !.logged = log_iteration(iteration, "None", "None")]
    /\ best_end = IF iteration = 0 THEN None ELSE MaxObj
    /\ replaced_at = 0
    /\ updates = 0
    /\ pending = [m \in Methods |-> 0]
    /\ NoGenerator
    /\ sdiv_last = NoSdiv
    /\ seq_sol = "none"

\* m1 applied once more to the other solution object, by an operator that
\* never worsens the objective
ApplyLogged ==
    /\ iteration < MaxLogIter
    /\ \E obj_new \in {o \in Obj : ~is_worse_obj(o, obj["work"])} :
          PerformMethod("m1", "work", FALSE, obj_new, 0, 0, 0)

\* a destroy/repair pair applied likewise, once in a run
ApplyLoggedPair ==
    /\ iteration < MaxLogIter
    /\ method_stats["m2"].applications = 0
    /\ \E obj_new \in {o \in Obj : ~is_worse_obj(o, obj["work"])} :
          PerformMethodPair("m1", "m2", "work", obj_new, 0, 0, 0, 0)

NextLog ==
    \/ ApplyLogged
    \/ ApplyLoggedPair
SpecLog == InitLog /\ [][NextLog]_vars

\* ------------------------------------------------------------ next_method
\* the lists a caller may hand over
MethodLists == UNION {[1..n -> Methods] : n \in 0..MaxLen}

\* the outcomes of random.shuffle(list): every rearrangement
Rearrangements(n) == {f \in [1..n -> 1..n] : \A i, j \in 1..n : f[i] = f[j] => i = j}
\* faulty variant: every position is drawn afresh from the list
ShufflesWithRepetition(list) ==
    [1..Len(list) -> {list[i] : i \in DOMAIN list}]
Shuffles(list) ==
    {[i \in 1..Len(list) |-> list[f[i]]] : f \in Rearrangements(Len(list))}

\* faulty variant: the generator works on the caller's list itself
LocalListOfCaller(randomize) == "caller"
\* the list object the local meths names: "if randomize: meths = meths.copy()"
LocalList(randomize) == IF randomize THEN "copy" ELSE "caller"

\* gen = next_method(meths, randomize=.., repeat=..): nothing of the body
\* runs before the first next(gen)
InitGen ==
    /\ InitWith({Setting(-1, -1, -1, -1, -1, TRUE, 0, FALSE)}, {0})
    /\ to_maximize = FALSE /\ incumbent_valid = FALSE /\ obj["incumbent"] = 0

\* the start of a pass of "while True" over the list object ref of lists:
\* shuffled is the list after "if randomize: random.shuffle(meths)"
PassYields(lists, ref, shuffled) ==
    /\ shuffled \in (IF gen_args.randomize THEN Shuffles(lists[ref])
                                          ELSE {lists[ref]})
    /\ Len(shuffled) > 0
    /\ Len(gen_out) < MaxYields
    /\ gen_lists' = [lists EXCEPT ![ref] = shuffled]
    /\ gen_meths' = ref
    /\ gen_idx' = 1
    /\ gen_out' = Append(gen_out, shuffled[1])
    /\ gen_pc' = "yielded"

\* a pass over an empty list yields nothing: "if not repeat: break" ends the
\* generator, otherwise "while True" goes round for ever
PassEmpty(lists, ref) ==
    /\ Len(lists[ref]) = 0
    /\ gen_lists' = lists
    /\ gen_meths' = ref
    /\ gen_pc' = IF gen_args.repeat THEN "looping" ELSE "done"
    /\ UNCHANGED <<gen_idx, gen_out>>

\* Scheduler.next_method(meths, randomize, repeat) is called
CreateGenerator(meths, randomize, repeat) ==
    /\ gen_pc = "none"
    /\ gen_args' = [randomize |-> randomize, repeat |-> repeat]
    /\ gen_lists' = [caller |-> meths, copy |-> <<>>]
    /\ gen_given' = meths
    /\ gen_pc' = "created"
    /\ UNCHANGED <<gen_meths, gen_idx, gen_out>>
    /\ UNCHANGED <<scheduler, sdiv_last>>

\* the first next(gen): the body runs up to its first yield, or ends
FirstNext ==
    /\ gen_pc = "created"
    /\ LET ref == LocalList(gen_args.randomize)
           lists == IF ref = "copy"
                    THEN [gen_lists EXCEPT !.copy = gen_lists.caller]
                    ELSE gen_lists
       IN  \/ \E shuffled \in Shuffles(lists[ref]) : PassYields(lists, ref, shuffled)
           \/ PassEmpty(lists, ref)
    /\ UNCHANGED <<gen_args, gen_given>>
    /\ UNCHANGED <<scheduler, sdiv_last, seq_sol>>

\* next(gen) while the for loop has a further element
NextInPass ==
    /\ gen_pc = "yielded"
    /\ gen_idx < Len(gen_lists[gen_meths])
    /\ Len(gen_out) < MaxYields
    /\ gen_idx' = gen_idx + 1
    /\ gen_out' = Append(gen_out, gen_lists[gen_meths][gen_idx + 1])
    /\ UNCHANGED <<gen_args, gen_lists, gen_meths, gen_pc, gen_given>>
    /\ UNCHANGED <<scheduler, sdiv_last, seq_sol>>

\* next(gen) after the last element of a pass, repeat = false: the generator ends
NextEnds ==
    /\ gen_pc = "yielded"
    /\ gen_idx = Len(gen_lists[gen_meths])
    /\ ~gen_args.repeat
    /\ gen_pc' = "done"
    /\ UNCHANGED <<gen_args, gen_lists, gen_meths, gen_idx, gen_out, gen_given>>
    /\ UNCHANGED <<scheduler, sdiv_last, seq_sol>>

\* next(gen) after the last element of a pass, repeat = true: the next pass
NextPass ==
    /\ gen_pc = "yielded"
    /\ gen_idx = Len(gen_lists[gen_meths])
    /\ gen_args.repeat
    /\ \E shuffled \in Shuffles(gen_lists[gen_meths]) :
          PassYields(gen_lists, gen_meths, shuffled)
    /\ UNCHANGED <<gen_args, gen_given>>
    /\ UNCHANGED <<scheduler, sdiv_last, seq_sol>>

NextGen ==
    \/ \E meths \in MethodLists, randomize \in BOOLEAN, repeat \in BOOLEAN :
          CreateGenerator(meths, randomize, repeat) /\ UNCHANGED seq_sol
    \/ FirstNext
    \/ NextInPass
    \/ NextEnds
    \/ NextPass
SpecGen == InitGen /\ [][NextGen]_vars

\* ------------------------------------------------- perform_sequentially
\* where perform_sequentially(sol, meths) stands: the for loop asks the
\* generator for the next method ("next"), perform_method is due for the
\* method just yielded ("apply"), the call of update_incumbent is due
\* ("update"), or the loop has ended ("ended")
SeqAt ==
    IF seq_sol = "none" THEN "none"
    ELSE IF gen_pc = "done" THEN "ended"
    ELSE IF gen_pc = "created" THEN "next"
    ELSE IF Len(gen_out) = calls + 1 THEN "apply"
    ELSE IF last.op = "update_incumbent" THEN "next"
    ELSE IF last.terminate THEN "ended"
    ELSE "update"

\* perform_sequentially(sol, meths) is called: "self.next_method(meths)"
SeqCall(sol, meths) ==
    /\ SeqAt = "none"
    /\ CreateGenerator(meths, FALSE, FALSE)
    /\ seq_sol' = sol

\* "for m in self.next_method(meths)": the next method, or the end of the loop
SeqNext ==
    /\ SeqAt = "next"
    /\ \/ FirstNext
       \/ NextInPass
       \/ NextEnds

\* "res = self.perform_method(m, sol)", followed by "if res.terminate: break"
SeqApply ==
    /\ SeqAt = "apply"
    /\ \E obj_new \in Obj, d1 \in Durations :
          PerformMethod(gen_out[Len(gen_out)], seq_sol, FALSE, obj_new, d1, 0, 0)

\* "self.update_incumbent(sol, time.process_time())"
SeqUpdate ==
    /\ SeqAt = "update"
    /\ UpdateIncumbent(seq_sol, now)

InitSeq ==
    InitWith({Setting(-1, -1, -1, -1, -1, TRUE, 0, FALSE),
              Setting(2, -1, -1, -1, -1, TRUE, 0, FALSE),
              Setting(-1, -1, -1, -1, 0, TRUE, 0, FALSE)}, StartTimes)
NextSeq ==
    \/ Tick
    \/ \E sol \in Sols, meths \in MethodLists : SeqCall(sol, meths)
    \/ SeqNext
    \/ SeqApply
    \/ SeqUpdate
SpecSeq == InitSeq /\ [][NextSeq]_vars

\* ------------------------------------------------------------------ claims
Applications(m) == method_stats[m].applications
Performed == last.op \in {"perform_method", "perform_method_pair"} /\ ~last.raised
\* this step completes a call of op
Completes(op) == last'.op = op /\ ~last'.raised /\ calls' = calls + 1

\* C1: the iteration counter equals the number of completed perform_method and
\* perform_method_pair calls (a pair counts once); no other operation and no
\* aborted call changes it.
C1_IterationCountsCalls == iteration = calls

\* C1 witness: methods and a pair were applied (a pair leaves two applications
\* for one call), a delayed update and a report ran, termination was checked.
C1_Witness ==
    /\ calls = MaxIter
    /\ Applications("m1") + Applications("m2") > calls
    /\ updates > 0
    /\ run_time # None
    /\ last.op = "check_termination"

\* C2 (as claimed): once the incumbent is valid, from one state to the next its
\* objective is unchanged or strictly better.
C2_IncumbentNeverRegresses ==
    [][incumbent_valid =>
         /\ incumbent_valid'
         /\ \/ obj'["incumbent"] = obj["incumbent"]
            \/ is_better_obj(obj'["incumbent"], obj["incumbent"])]_vars

\* C3 (as claimed): while the incumbent is valid, no working solution as it
\* stood at the end of a completed call is strictly better than the incumbent.
C3_IncumbentNoWorseThanObserved ==
    (incumbent_valid /\ best_end # None) =>
        ~is_better_obj(best_end, obj["incumbent"])

\* C4: update_incumbent(candidate, current_time) returns a true value iff the
\* incumbent was not valid or the candidate is strictly better; then the
\* candidate is copied and found_at_iteration, found_at_time, valid are set;
\* otherwise the value is false and the incumbent state is untouched.
C4_UpdateIncumbentReturn ==
    [][last'.op = "update_incumbent" =>
       \A sol \in Sols, current_time \in Clock :
         UpdateIncumbent(sol, current_time) =>
            LET replaces == \/ ~incumbent_valid
                            \/ is_better_obj(obj[sol], obj["incumbent"])
            IN  /\ Truthy(last'.ret) <=> replaces
                /\ replaces =>
                     /\ obj'["incumbent"] = obj[sol]
                     /\ incumbent_iteration' = iteration
                     /\ incumbent_time' = current_time
                     /\ incumbent_valid'
                /\ ~replaces =>
                     UNCHANGED <<obj, incumbent_valid, incumbent_iteration,
                                 incumbent_time>>]_vars

\* C4 witness: a candidate of equal objective was offered to a valid
\* incumbent found earlier, and was refused.
C4_Witness ==
    /\ last.op = "update_incumbent"
    /\ ~Truthy(last.ret)
    /\ incumbent_valid
    /\ obj["work"] = obj["incumbent"]
    /\ incumbent_iteration < iteration

OnlyMaxIterations ==
    /\ own_settings.mh_titer >= 0
    /\ own_settings.mh_tciter < 0
    /\ own_settings.mh_ttime < 0
    /\ own_settings.mh_tctime < 0
    /\ own_settings.mh_tobj < 0

\* C5: with only max_iterations = M enabled, a call that leaves iteration < M
\* returns terminate = false and the call that leaves iteration = M returns
\* terminate = true.
C5_TerminatesAtMaxIterations ==
    (OnlyMaxIterations /\ Performed) =>
        /\ iteration < own_settings.mh_titer => ~last.terminate
        /\ iteration = own_settings.mh_titer => last.terminate

\* C5 witness: M = 2, the second call has returned terminate = true.
C5_Witness ==
    /\ OnlyMaxIterations
    /\ Performed
    /\ own_settings.mh_titer = 2
    /\ iteration = 2
    /\ last.terminate

\* the five criteria as the claim states them, at clock value t
Criterion1 ==
    own_settings.mh_titer >= 0 /\ iteration >= own_settings.mh_titer
Criterion2 ==
    /\ own_settings.mh_tciter >= 0
    /\ iteration - incumbent_iteration >= own_settings.mh_tciter
Criterion3(t) ==
    own_settings.mh_ttime >= 0 /\ t - time_start >= own_settings.mh_ttime
Criterion4(t) ==
    own_settings.mh_tctime >= 0 /\ t - incumbent_time >= own_settings.mh_tctime
Criterion5 ==
    /\ own_settings.mh_tobj >= 0
    /\ ~is_worse_obj(obj["incumbent"], own_settings.mh_tobj)
AllDisabled ==
    /\ own_settings.mh_titer < 0
    /\ own_settings.mh_tciter < 0
    /\ own_settings.mh_ttime < 0
    /\ own_settings.mh_tctime < 0
    /\ own_settings.mh_tobj < 0

\* C6: check_termination returns a true value iff an enabled criterion (one
\* with a non-negative threshold) holds at its clock value; never with all
\* five thresholds negative; and it changes no scheduler state.
C6_CheckTermination ==
    [][CheckTermination =>
         /\ Truthy(last'.ret) <=>
               \/ Criterion1
               \/ Criterion2
               \/ Criterion3(now)
               \/ Criterion4(now)
               \/ Criterion5
         /\ AllDisabled => ~Truthy(last'.ret)
         /\ UNCHANGED <<own_settings, obj, incumbent_valid, incumbent_iteration,
                        incumbent_time, method_stats, iteration, run_time,
                        time_start>>]_vars

\* C6 witness: only the target objective is enabled and the incumbent's
\* objective equals it: check_termination returned true.
C6_Witness ==
    /\ last.op = "check_termination"
    /\ Truthy(last.ret)
    /\ own_settings.mh_tobj >= 0
    /\ own_settings.mh_titer < 0
    /\ own_settings.mh_tciter < 0
    /\ own_settings.mh_ttime < 0
    /\ own_settings.mh_tctime < 0
    /\ obj["incumbent"] = own_settings.mh_tobj
    /\ iteration > 0

OnlyMaxTimeWithoutImprovement ==
    /\ own_settings.mh_tctime >= 0
    /\ own_settings.mh_titer < 0
    /\ own_settings.mh_tciter < 0
    /\ own_settings.mh_ttime < 0
    /\ own_settings.mh_tobj < 0

\* C7 (as claimed): with only the maximum time without improvement T enabled,
\* a perform_method call returns terminate = true iff, at the clock value t
\* check_termination reads, at least T has passed since the incumbent was last
\* replaced.
C7_TerminatesOnIncumbentAge ==
    [][(OnlyMaxTimeWithoutImprovement /\ Completes("perform_method")) =>
       \A sol \in Sols, obj_new \in Obj, d1, d2, d3 \in Durations :
         (/\ now' = now + d1 + d2 + d3
          /\ PerformMethod("m1", sol, FALSE, obj_new, d1, d2, d3)) =>
            (last'.terminate <=>
                (now + d1 + d2) - replaced_at' >= own_settings.mh_tctime)]_vars

\* C8 (as claimed): after perform_method_pair each of the two methods has
\* applications + 1 and its own time slice in netto_time and brutto_time, both
\* have successes + 1 and obj_gain + (after repair - before destroy) iff that
\* change is a strict improvement, and every other method is unchanged.
C8_PairCreditsEachOnce ==
    [][Completes("perform_method_pair") =>
       \A destroy \in Methods, repair \in Methods, sol \in Sols, obj_new \in Obj,
          d1, d2, d3, d4 \in Durations :
         (/\ now' = now + d1 + d2 + d3 + d4
          /\ PerformMethodPair(destroy, repair, sol, obj_new, d1, d2, d3, d4)) =>
            LET improved == is_better_obj(obj_new, obj[sol])
                gain == IF improved THEN obj_new - obj[sol] ELSE 0
                Charged(m, dt) ==
                    /\ method_stats'[m].applications = method_stats[m].applications + 1
                    /\ method_stats'[m].netto_time = method_stats[m].netto_time + dt
                    /\ method_stats'[m].brutto_time = method_stats[m].brutto_time + dt
                    /\ method_stats'[m].successes =
                          method_stats[m].successes + (IF improved THEN 1 ELSE 0)
                    /\ method_stats'[m].obj_gain = method_stats[m].obj_gain + gain
            IN  /\ Charged(destroy, d1)
                /\ Charged(repair, d2)
                /\ \A m \in Methods \ {destroy, repair} :
                      method_stats'[m] = method_stats[m]]_vars

\* C8 (amended): the claim for two different methods; a method passed as both
\* destroy and repair receives both increments: applications + 2, both time
\* slices, and on a strict improvement successes + 2 and twice the gain.
C8_PairCreditsEachRole ==
    [][Completes("perform_method_pair") =>
       \A destroy \in Methods, repair \in Methods, sol \in Sols, obj_new \in Obj,
          d1, d2, d3, d4 \in Durations :
         (/\ now' = now + d1 + d2 + d3 + d4
          /\ PerformMethodPair(destroy, repair, sol, obj_new, d1, d2, d3, d4)) =>
            LET improved == is_better_obj(obj_new, obj[sol])
                gain == IF improved THEN obj_new - obj[sol] ELSE 0
                Charged(m, n, dt) ==
                    /\ method_stats'[m].applications = method_stats[m].applications + n
                    /\ method_stats'[m].netto_time = method_stats[m].netto_time + dt
                    /\ method_stats'[m].brutto_time = method_stats[m].brutto_time + dt
                    /\ method_stats'[m].successes =
                          method_stats[m].successes + (IF improved THEN n ELSE 0)
                    /\ method_stats'[m].obj_gain = method_stats[m].obj_gain + n * gain
            IN  /\ destroy # repair => Charged(destroy, 1, d1) /\ Charged(repair, 1, d2)
                /\ destroy = repair => Charged(destroy, 2, d1 + d2)
                /\ \A m \in Methods \ {destroy, repair} :
                      method_stats'[m] = method_stats[m]]_vars

\* C8 witness: the first call was a pair of two methods that improved the
\* objective: both have one success and the same gain, only the destroy
\* method was charged a clock tick.
C8_Witness ==
    /\ last.op = "perform_method_pair"
    /\ ~last.raised
    /\ iteration = 1
    /\ method_stats["m1"].successes = 1
    /\ method_stats["m2"].successes = 1
    /\ method_stats["m1"].obj_gain # 0
    /\ method_stats["m1"].obj_gain = method_stats["m2"].obj_gain
    /\ method_stats["m1"].netto_time = 1
    /\ method_stats["m2"].netto_time = 0

\* C9: perform_method without deferred success accounting adds 1 to the
\* method's applications; it adds 1 to successes and (objective after -
\* snapshot before) to obj_gain iff the objective after is strictly better
\* than the snapshot, and leaves both unchanged otherwise.
C9_MethodStatistics ==
    [][Completes("perform_method") =>
       \A method \in Methods, sol \in Sols, obj_new \in Obj,
          d1, d2, d3 \in Durations :
         (/\ now' = now + d1 + d2 + d3
          /\ PerformMethod(method, sol, FALSE, obj_new, d1, d2, d3)) =>
            LET before == method_stats[method]
                after == method_stats'[method]
            IN  /\ after.applications = before.applications + 1
                /\ is_better_obj(obj_new, obj[sol]) =>
                     /\ after.successes = before.successes + 1
                     /\ after.obj_gain = before.obj_gain + (obj_new - obj[sol])
                /\ ~is_better_obj(obj_new, obj[sol]) =>
                     /\ after.successes = before.successes
                     /\ after.obj_gain = before.obj_gain]_vars

\* C9 witness: max_iterations = 2 and one method that never improved: the
\* call that reached the limit returned terminate = true, and the method has
\* applications = 2, successes = 0, obj_gain = 0.
C9_Witness ==
    /\ last.op = "perform_method"
    /\ last.terminate
    /\ own_settings.mh_titer = iteration
    /\ iteration = MaxIter
    /\ method_stats["m1"].applications = MaxIter
    /\ method_stats["m1"].successes = 0
    /\ method_stats["m1"].obj_gain = 0
    /\ method_stats["m2"].applications = 0

Count(list, m) == Cardinality({i \in DOMAIN list : list[i] = m})
IsPrefix(a, b) == Len(a) <= Len(b) /\ a = SubSeq(b, 1, Len(a))

\* C10: next_method(methods, repeat=false) yields each entry of the list
\* exactly once and then ends (N yields for N methods, also for N = 0); in
\* list order for randomize=false; for randomize=true a permutation of the
\* list, and the caller's list keeps its order.
C10_OnePassOverTheList ==
    (gen_pc # "none" /\ ~gen_args.repeat) =>
        /\ gen_pc \in {"created", "yielded", "done"}
        /\ \A m \in Methods : Count(gen_out, m) <= Count(gen_given, m)
        /\ gen_pc = "done" =>
              /\ Len(gen_out) = Len(gen_given)
              /\ \A m \in Methods : Count(gen_out, m) = Count(gen_given, m)
        /\ gen_pc = "yielded" => Len(gen_out) = gen_idx
        /\ ~gen_args.randomize => IsPrefix(gen_out, gen_given)
        /\ gen_lists.caller = gen_given

\* C10 witness: a randomized single pass over a list of MaxLen methods has
\* ended, its yields came in another order than the list's.
C10_Witness ==
    /\ gen_pc = "done"
    /\ ~gen_args.repeat
    /\ gen_args.randomize
    /\ Len(gen_given) = MaxLen
    /\ Len(gen_out) = MaxLen
    /\ gen_out # gen_given

IsPermutation(a, b) ==
    Len(a) = Len(b) /\ \A m \in Methods : Count(a, m) = Count(b, m)
RepeatsShuffled == gen_pc # "none" /\ gen_args.repeat /\ gen_args.randomize
\* the yields of pass k (k = 0, 1, ..) over a list of n entries
YieldsOfPass(k, n) == SubSeq(gen_out, k * n + 1, (k + 1) * n)

\* C11 (as claimed): with repeat and randomize, every contiguous block of N
\* yields, wherever it starts, is a permutation of the list.
C11_EveryBlockIsPermutation ==
    RepeatsShuffled =>
        LET n == Len(gen_given)
        IN  \A i \in 1..Len(gen_out) :
               i + n - 1 <= Len(gen_out) =>
                  IsPermutation(SubSeq(gen_out, i, i + n - 1), gen_given)

\* C11 (amended): with repeat and randomize over a list of N >= 1 entries the
\* generator never ends, and every pass, that is the block of yields
\* k*N+1 .. k*N+N, is a permutation of the list; the yields of the pass under
\* way are entries of the list, each at most as often as the list holds it.
\* Over the empty list nothing is ever yielded and the first next() does not
\* return.
C11_EveryPassIsPermutation ==
    /\ (RepeatsShuffled /\ Len(gen_given) >= 1) =>
          LET n == Len(gen_given)
              full == Len(gen_out) \div n
              rest == SubSeq(gen_out, full * n + 1, Len(gen_out))
          IN  /\ gen_pc \in {"created", "yielded"}
              /\ \A k \in 0..(full - 1) : IsPermutation(YieldsOfPass(k, n), gen_given)
              /\ \A m \in Methods : Count(rest, m) <= Count(gen_given, m)
    /\ (RepeatsShuffled /\ Len(gen_given) = 0) =>
          /\ gen_pc \in {"created", "looping"}
          /\ gen_out = <<>>

\* C11 witness: two full passes over a list of two different methods came in
\* different orders.
C11_Witness ==
    /\ RepeatsShuffled
    /\ Len(gen_given) = 2
    /\ gen_given[1] # gen_given[2]
    /\ Len(gen_out) >= 4
    /\ YieldsOfPass(0, 2) # YieldsOfPass(1, 2)

PowersOfTen == {1, 10, 100, 1000}
\* i = d * 10^k with d in {1, 2, 5} and k >= 0
OneTwoFive(i) == \E p \in PowersOfTen, d \in {1, 2, 5} : i = d * p

CompletesApplication == Completes("perform_method") \/ Completes("perform_method_pair")

\* this step is a method_statistics call (the clock and the delayed updates
\* stand still, the last call made is method_statistics)
Reports == last'.op = "method_statistics" /\ UNCHANGED <<now, updates>>

C14_AbortedCallChangesNothing ==
    [][last'.raised =>
          /\ own_settings.mh_checkit
          /\ incumbent_valid => obj'["incumbent"] = obj["incumbent"]
          /\ UNCHANGED <<iteration, method_stats, incumbent_valid,
                         incumbent_iteration, incumbent_time, run_time>>]_vars

\* C14 without the incumbent's solution: the counters, the statistics, the
\* incumbent's bookkeeping and run_time after an aborted call
C14_AbortedCallKeepsBookkeeping ==
    [][last'.raised =>
          /\ own_settings.mh_checkit
          /\ UNCHANGED <<iteration, method_stats, incumbent_valid,
                         incumbent_iteration, incumbent_time, run_time, calls>>]_vars

\* C15: sdiv(x, y) is the "undefined" value exactly when y = 0 and the
\* quotient x / y for every other y, negative ones included; the method
\* statistics report is produced without a division by zero in every state.
C15_SafeDivision ==
    /\ sdiv_last.called =>
          LET v == sdiv_last.value
          IN  /\ v.kind = "nan" <=> sdiv_last.y = 0
              /\ sdiv_last.y # 0 =>
                    /\ v.kind = "number"
                    /\ v.den # 0
                    /\ v.num * sdiv_last.y = sdiv_last.x * v.den
    /\ last.op = "method_statistics" => ~last.raised

\* C15 witness: the report was produced at run time 0 with one method never
\* applied and no success at all; sdiv was called with a negative denominator.
C15_Witness ==
    /\ last.op = "method_statistics"
    /\ run_time = 0
    /\ DOMAIN method_stats = Methods
    /\ method_stats["m1"].applications > 0
    /\ method_stats["m2"].applications = 0
    /\ \A m \in Methods : method_stats[m].successes = 0
    /\ sdiv_last.called
    /\ sdiv_last.y < 0
    /\ sdiv_last.x # 0

\* C16: perform_method with delayed_success set adds 1 to the method's
\* applications, its duration to netto_time and 1 to the iteration counter, and
\* leaves the method's brutto_time, successes and obj_gain; the later
\* delayed_success_update(method, obj_before, started_at, sol) adds the time
\* since started_at to brutto_time, adds 1 to successes and (current objective
\* of sol - obj_before) to obj_gain iff that objective is strictly better than
\* obj_before, and leaves everything else.
C16_DeferredSuccess ==
    [][/\ Completes("perform_method") =>
            \A sol \in Sols, obj_new \in Obj, d1 \in Durations :
              (/\ now' = now + d1
               /\ PerformMethod("m1", sol, TRUE, obj_new, d1, 0, 0)) =>
                 LET before == method_stats["m1"]
                     after == method_stats'["m1"]
                 IN  /\ after.applications = before.applications + 1
                     /\ after.netto_time = before.netto_time + d1
                     /\ after.brutto_time = before.brutto_time
                     /\ after.successes = before.successes
                     /\ after.obj_gain = before.obj_gain
                     /\ iteration' = iteration + 1
                     /\ method_stats'["m2"] = method_stats["m2"]
       /\ updates' = updates + 1 =>
            \A method \in Methods, obj_old \in Obj, t_start \in Clock, sol \in Sols :
              DelayedSuccessUpdate(method, obj_old, t_start, sol) =>
                 LET before == method_stats[method]
                     after == method_stats'[method]
                     better == is_better_obj(obj[sol], obj_old)
                 IN  /\ after.brutto_time = before.brutto_time + (now - t_start)
                     /\ after.successes = before.successes + (IF better THEN 1 ELSE 0)
                     /\ after.obj_gain =
                           before.obj_gain + (IF better THEN obj[sol] - obj_old ELSE 0)
                     /\ after.applications = before.applications
                     /\ after.netto_time = before.netto_time
                     /\ \A m \in Methods \ {method} : method_stats'[m] = method_stats[m]
                     /\ UNCHANGED <<iteration, obj, incumbent_valid,
                                    incumbent_iteration, incumbent_time, run_time>>]_vars

\* C16 witness: one application of m1 that took no time; one clock tick later
\* its success was booked by delayed_success_update.
C16_Witness ==
    /\ updates = 1
    /\ iteration = 1
    /\ method_stats["m1"].applications = 1
    /\ method_stats["m1"].netto_time = 0
    /\ method_stats["m1"].brutto_time = 1
    /\ method_stats["m1"].successes = 1
    /\ method_stats["m1"].obj_gain # 0
    /\ method_stats["m2"] = MethodStatistics

\* C17: an incumbent installed by the k-th completed perform_method /
\* perform_method_pair call has found_at_iteration = k (at least 1), before any
\* application found_at_iteration is 0, and always
\* 0 <= found_at_iteration <= iteration.
C17_FoundAtIteration ==
    /\ 0 <= incumbent_iteration
    /\ incumbent_iteration <= iteration
    /\ iteration = 0 => incumbent_iteration = 0
    /\ (Performed /\ Truthy(last.new_incumbent)) =>
          /\ incumbent_iteration = calls
          /\ incumbent_iteration >= 1

\* C17 witness: the second completed call installed a new incumbent.
C17_Witness ==
    /\ Performed
    /\ Truthy(last.new_incumbent)
    /\ calls = 2
    /\ incumbent_iteration = 2
    /\ iteration - incumbent_iteration = 0

\* the yields so far repeat the given list in its order
RepeatsInOrder ==
    \A i \in 0..(Len(gen_out) - 1) :
       gen_out[i + 1] = gen_given[(i % Len(gen_given)) + 1]

\* C18 (as claimed): with repeat set, for every list, the generator never ends
\* and every next() returns a method; without randomize the i-th yield,
\* counting from 0, is methods[i mod N].
C18_RepeatNeverEnds ==
    (gen_pc # "none" /\ gen_args.repeat) =>
        /\ gen_pc \in {"created", "yielded"}
        /\ ~gen_args.randomize => RepeatsInOrder

\* C18 for the lists with at least one method
C18_RepeatOverNonEmptyList ==
    (gen_pc # "none" /\ gen_args.repeat /\ Len(gen_given) >= 1) =>
        /\ gen_pc \in {"created", "yielded"}
        /\ ~gen_args.randomize => RepeatsInOrder

\* C19: for every method 0 <= successes <= applications, and obj_gain = 0
\* while successes = 0, after any perform_method and perform_method_pair calls
\* (a method may be both destroy and repair of a pair), deferred applications
\* included when each is finalised at most once.
C19_SuccessesWithinApplications ==
    \A m \in Methods :
       /\ 0 <= method_stats[m].successes
       /\ method_stats[m].successes <= method_stats[m].applications
       /\ method_stats[m].successes = 0 => method_stats[m].obj_gain = 0

\* C19 witness: m1 was destroy and repair of a successful pair, m2 was applied
\* with deferred success accounting and finalised as a success.
C19_Witness ==
    /\ method_stats["m1"].applications = 2
    /\ method_stats["m1"].successes = 2
    /\ method_stats["m2"].applications = 1
    /\ method_stats["m2"].successes = 1
    /\ method_stats["m2"].netto_time = method_stats["m2"].brutto_time
    /\ updates = 1
    /\ pending["m2"] = 0
    /\ iteration = 2

\* the methods perform_method was called for, in perform_sequentially
SeqApplied == SubSeq(gen_out, 1, calls)

\* C20: perform_sequentially applies the methods in list order, one
\* perform_method call each, and ends with the first call that returns
\* terminate = true; its own update_incumbent calls never replace the
\* incumbent, so found_at_iteration and found_at_time stay as perform_method
\* left them.
C20_PerformSequentially ==
    /\ [](seq_sol # "none" =>
            /\ calls <= Len(gen_out)
            /\ Len(gen_out) <= calls + 1
            /\ IsPrefix(gen_out, gen_given)
            /\ iteration = calls
            /\ \A m \in Methods : method_stats[m].applications = Count(SeqApplied, m)
            /\ last.op = "update_incumbent" => ~Truthy(last.ret)
            /\ SeqAt = "ended" =>
                  \/ Performed /\ last.terminate
                  \/ calls = Len(gen_given) /\ ~last.terminate)
    /\ [][/\ (seq_sol # "none" /\ Performed /\ last.terminate) =>
                UNCHANGED <<scheduler>> \/ UNCHANGED <<calls, gen_out, obj, last>>
          /\ (seq_sol # "none" /\ last'.op = "update_incumbent") =>
                UNCHANGED <<obj, incumbent_valid, incumbent_iteration,
                            incumbent_time>>]_vars

\* C20 witness: a list of three methods and max_iterations = 2: the second
\* perform_method call returned terminate = true and the third method was
\* not applied.
C20_Witness ==
    /\ seq_sol # "none"
    /\ Len(gen_given) = 3
    /\ SeqAt = "ended"
    /\ calls = 2
    /\ last.terminate
    /\ gen_out = SubSeq(gen_given, 1, 2)
    /\ incumbent_iteration = 1

====
